---- MODULE Spec2Model ----
(***************************************************************************)
(* Limit-order escrow contract (miaw-limit-order): the order table, the    *)
(* owner index, the id counter, the contract's held balances, and the      *)
(* submit / cancel / execute handlers together with the host's             *)
(* all-or-nothing execution of the instructions they return.               *)
(***************************************************************************)
EXTENDS Integers, Sequences, FiniteSets, TLC

\* ---------------------------------------------------------------- bounds
MaxOrders == 2          \* cap on LAST_ORDER_ID (number of successful submits)

\* ---------------------------------------------------------------- inputs
Users == {"alice", "bob"}
NativeDenoms == {"uusd"}
Tokens == {"FEE", "TOK"}
Kinds == NativeDenoms \cup Tokens
OrderIds == 1..MaxOrders
ContractAddr == "limit_order"
FactoryAddr == "factory"
NoAddr == "-"

\* The venue directory: each pool and the two asset kinds it trades.
PairAssets == [pair_uusd_fee |-> {"uusd", "FEE"}]
Pairs == DOMAIN PairAssets

\* ---------------------------------------------------------------- errors
NoError == "ok"
InvalidFee == "fee should be greater than min_fee_amount"
NoMarket == "there is no terraswap pair for the 2 assets provided"
PaymentMismatch == "native token balance mismatch"
NotFound == "not found"
Unauthorized == "unauthorized"
InsufficientReturn == "insufficient return amount"
VenueUnavailable == "simulation query failed"

\* ---------------------------------------------------------------- values
Asset(info, amount) == [info |-> info, amount |-> amount]
NoAsset == Asset("-", 0)

IsNative(info) == info \in NativeDenoms

\* One outbound instruction. type is "transfer_from" (cw20 TransferFrom),
\* "transfer" (cw20 Transfer), "bank_send" (native coin transfer) or "swap".
Msg(type, info, amount, from, to) ==
  [type |-> type, info |-> info, amount |-> amount, from |-> from, to |-> to]

VARIABLES config, LAST_ORDER_ID, ORDERS, ORDERS_BY_USER, balance, resp, closed

vars == <<config, LAST_ORDER_ID, ORDERS, ORDERS_BY_USER, balance, resp, closed>>
\* ------------------------------------------------------------ collaborators
\* terraswap::querier::query_pair_info: the pools registered for the two assets.
query_pair_info(asset_infos) == {p \in Pairs : PairAssets[p] = asset_infos}

\* Asset::assert_sent_native_token_balance: a native asset must be attached
\* with exactly its amount; a token asset is not checked.
assert_sent_native_token_balance(asset, info) ==
  IF IsNative(asset.info)
  THEN LET sent == {c \in info.funds : c.denom = asset.info}
       IN IF sent # {} THEN \A c \in sent : c.amount = asset.amount
                       ELSE asset.amount = 0
  ELSE TRUE

\* Asset::into_msg: one transfer instruction from the contract to recipient.
into_msg(asset, recipient) ==
  IF IsNative(asset.info)
  THEN Msg("bank_send", asset.info, asset.amount, ContractAddr, recipient)
  ELSE Msg("transfer", asset.info, asset.amount, ContractAddr, recipient)

\* Cw20ExecuteMsg::TransferFrom sent to a token contract.
TransferFrom(token, owner, recipient, amount) ==
  Msg("transfer_from", token, amount, owner, recipient)

\* ------------------------------------------------------------ state.rs
OrderInfo(order_id, bidder_addr, pair_addr, offer_asset, ask_asset, fee_amount) ==
  [order_id |-> order_id, bidder_addr |-> bidder_addr, pair_addr |-> pair_addr,
   offer_asset |-> offer_asset, ask_asset |-> ask_asset, fee_amount |-> fee_amount]

\* The storage a handler stages: the order table, the owner index, the counter.
Storage(orders, by_user, last) ==
  [ORDERS |-> orders, ORDERS_BY_USER |-> by_user, LAST_ORDER_ID |-> last]

CurrentStorage == Storage(ORDERS, ORDERS_BY_USER, LAST_ORDER_ID)

\* store_new_order: the stored order (with its id) and the storage written.
\* store_new_order numbering by the count of open orders instead of the counter.
store_new_order_by_count(storage, order) ==
  LET new_id == Cardinality(DOMAIN storage.ORDERS) + 1
      stored == [order EXCEPT !.order_id = new_id]
  IN [order |-> stored,
      storage |-> Storage((new_id :> stored) @@ storage.ORDERS,
                          storage.ORDERS_BY_USER \cup {<<stored.bidder_addr, new_id>>},
                          new_id)]

store_new_order(storage, order) ==
  LET new_id == storage.LAST_ORDER_ID + 1
      stored == [order EXCEPT !.order_id = new_id]
  IN [order |-> stored,
      storage |-> Storage((new_id :> stored) @@ storage.ORDERS,
                          storage.ORDERS_BY_USER \cup {<<stored.bidder_addr, new_id>>},
                          new_id)]

\* remove_order forgetting the order table.
remove_order_keeps_order(storage, order) ==
  Storage(storage.ORDERS,
          storage.ORDERS_BY_USER \ {<<order.bidder_addr, order.order_id>>},
          storage.LAST_ORDER_ID)

\* remove_order forgetting the owner index.
remove_order_keeps_index(storage, order) ==
  Storage([k \in DOMAIN storage.ORDERS \ {order.order_id} |-> storage.ORDERS[k]],
          storage.ORDERS_BY_USER,
          storage.LAST_ORDER_ID)

\* remove_order clearing every order of the removed order's owner.
remove_order_whole_owner(storage, order) ==
  Storage([k \in {i \in DOMAIN storage.ORDERS :
                    storage.ORDERS[i].bidder_addr # order.bidder_addr}
             |-> storage.ORDERS[k]],
          {e \in storage.ORDERS_BY_USER : e[1] # order.bidder_addr},
          storage.LAST_ORDER_ID)

remove_order(storage, order) ==
  Storage([k \in DOMAIN storage.ORDERS \ {order.order_id} |-> storage.ORDERS[k]],
          storage.ORDERS_BY_USER \ {<<order.bidder_addr, order.order_id>>},
          storage.LAST_ORDER_ID)

\* as_res with the two assets exchanged.
as_res_swapped(order) ==
  [order_id |-> order.order_id,
   bidder_addr |-> order.bidder_addr,
   pair_addr |-> order.pair_addr,
   offer_asset |-> order.ask_asset,
   ask_asset |-> order.offer_asset,
   fee_amount |-> order.fee_amount]

\* OrderInfo::as_res
as_res(order) ==
  [order_id |-> order.order_id,
   bidder_addr |-> order.bidder_addr,
   pair_addr |-> order.pair_addr,
   offer_asset |-> order.offer_asset,
   ask_asset |-> order.ask_asset,
   fee_amount |-> order.fee_amount]

\* ------------------------------------------------- state.rs: pagination
MAX_LIMIT == 30
DEFAULT_LIMIT == 10

\* An Option is the empty set (None) or a one-element set (Some).
None == {}
Some(x) == {x}
unwrap_or(opt, default) == IF opt = None THEN default ELSE CHOOSE x \in opt : TRUE
Min(a, b) == IF a <= b THEN a ELSE b

\* msg.rs: OrderBy
Asc == "asc"
Desc == "desc"

\* u64::to_be_bytes: the eight bytes of an id, most significant first (the
\* ids and cursors of the model stay below 2^31).
RECURSIVE BeBytes(_, _)
BeBytes(id, n) == IF n = 0 THEN <<>> ELSE Append(BeBytes(id \div 256, n - 1), id % 256)
to_be_bytes(id) == BeBytes(id, 8)

\* The id a stored eight-byte key stands for.
RECURSIVE from_be_bytes(_)
from_be_bytes(k) ==
  IF k = <<>> THEN 0 ELSE 256 * from_be_bytes(SubSeq(k, 1, Len(k) - 1)) + k[Len(k)]

\* The order of raw keys in the store: bytewise, a proper prefix first.
RECURSIVE BytesLess(_, _)
BytesLess(a, b) ==
  IF b = <<>> THEN FALSE
  ELSE IF a = <<>> THEN TRUE
  ELSE IF Head(a) # Head(b) THEN Head(a) < Head(b)
  ELSE BytesLess(Tail(a), Tail(b))

\* calc_range_end with the byte that calc_range_start appends.
calc_range_end_appended(start_after) ==
  {Append(to_be_bytes(id), 1) : id \in start_after}

calc_range_end(start_after) == {to_be_bytes(id) : id \in start_after}

calc_range_start(start_after) ==
  {Append(to_be_bytes(id), 1) : id \in start_after}

\* Map::range / Prefix::range with Bound::exclusive bounds: the keys strictly
\* between the bounds, to be walked in the given direction.
range(keys, start, end, order_by) ==
  [keys |-> {k \in keys : /\ \A s \in start : BytesLess(s, k)
                          /\ \A e \in end : BytesLess(k, e)},
   order_by |-> order_by]

\* The key an iterator yields first.
RECURSIVE FirstKey(_, _)
FirstKey(keys, order_by) ==
  LET x == CHOOSE k \in keys : TRUE
      rest == keys \ {x}
      m == FirstKey(rest, order_by)
  IN IF rest = {} THEN x
     ELSE IF order_by = Asc
          THEN (IF BytesLess(x, m) THEN x ELSE m)
          ELSE (IF BytesLess(m, x) THEN x ELSE m)

\* Iterator::take: the first limit keys of the walk.
RECURSIVE take(_, _)
take(iter, limit) ==
  IF limit = 0 \/ iter.keys = {} THEN <<>>
  ELSE LET k == FirstKey(iter.keys, iter.order_by)
       IN <<k>> \o take([iter EXCEPT !.keys = @ \ {k}], limit - 1)

\* What a listing returns: an error, or the orders in walk order.
Orders(err, orders) == [err |-> err, orders |-> orders]

\* The keys of the order table, and of one user's part of the owner index.
OrderKeys(storage) == {to_be_bytes(id) : id \in DOMAIN storage.ORDERS}
UserKeys(storage, user) ==
  {to_be_bytes(e[2]) : e \in {x \in storage.ORDERS_BY_USER : x[1] = user}}

\* read_orders_by_user walking the index of every user.
read_orders_by_user_any(storage, user, start_after, limit, order_by) ==
  LET lim == Min(unwrap_or(limit, DEFAULT_LIMIT), MAX_LIMIT)
      asc == order_by = Some(Asc)
      start == IF asc THEN calc_range_start(start_after) ELSE None
      end == IF asc THEN None ELSE calc_range_end(start_after)
      keys == take(range({to_be_bytes(e[2]) : e \in storage.ORDERS_BY_USER},
                         start, end, IF asc THEN Asc ELSE Desc), lim)
      ids == [i \in 1..Len(keys) |-> from_be_bytes(keys[i])]
  IN IF \E i \in 1..Len(ids) : ids[i] \notin DOMAIN storage.ORDERS
     THEN Orders(NotFound, <<>>)
     ELSE Orders(NoError, [i \in 1..Len(ids) |-> storage.ORDERS[ids[i]]])

read_orders_by_user(storage, user, start_after, limit, order_by) ==
  LET lim == Min(unwrap_or(limit, DEFAULT_LIMIT), MAX_LIMIT)
      asc == order_by = Some(Asc)
      start == IF asc THEN calc_range_start(start_after) ELSE None
      end == IF asc THEN None ELSE calc_range_end(start_after)
      keys == take(range(UserKeys(storage, user), start, end,
                         IF asc THEN Asc ELSE Desc), lim)
      ids == [i \in 1..Len(keys) |-> from_be_bytes(keys[i])]
  IN IF \E i \in 1..Len(ids) : ids[i] \notin DOMAIN storage.ORDERS
     THEN Orders(NotFound, <<>>)
     ELSE Orders(NoError, [i \in 1..Len(ids) |-> storage.ORDERS[ids[i]]])

\* read_orders without the cap on the page size.
read_orders_unclamped(storage, start_after, limit, order_by) ==
  LET lim == unwrap_or(limit, DEFAULT_LIMIT)
      asc == order_by = Some(Asc)
      start == IF asc THEN calc_range_start(start_after) ELSE None
      end == IF asc THEN None ELSE calc_range_end(start_after)
      keys == take(range(OrderKeys(storage), start, end,
                         IF asc THEN Asc ELSE Desc), lim)
  IN Orders(NoError,
            [i \in 1..Len(keys) |-> storage.ORDERS[from_be_bytes(keys[i])]])

\* read_orders walking upwards unless Desc is asked for.
read_orders_default_asc(storage, start_after, limit, order_by) ==
  LET lim == Min(unwrap_or(limit, DEFAULT_LIMIT), MAX_LIMIT)
      asc == order_by # Some(Desc)
      start == IF asc THEN calc_range_start(start_after) ELSE None
      end == IF asc THEN None ELSE calc_range_end(start_after)
      keys == take(range(OrderKeys(storage), start, end,
                         IF asc THEN Asc ELSE Desc), lim)
  IN Orders(NoError,
            [i \in 1..Len(keys) |-> storage.ORDERS[from_be_bytes(keys[i])]])

read_orders(storage, start_after, limit, order_by) ==
  LET lim == Min(unwrap_or(limit, DEFAULT_LIMIT), MAX_LIMIT)
      asc == order_by = Some(Asc)
      start == IF asc THEN calc_range_start(start_after) ELSE None
      end == IF asc THEN None ELSE calc_range_end(start_after)
      keys == take(range(OrderKeys(storage), start, end,
                         IF asc THEN Asc ELSE Desc), lim)
  IN Orders(NoError,
            [i \in 1..Len(keys) |-> storage.ORDERS[from_be_bytes(keys[i])]])

\* ------------------------------------------------------------ order.rs
\* The attributes of a response. submit_order sets order_id, bidder_addr,
\* offer_asset and ask_asset; cancel_order sets order_id, refunded_asset (as
\* offer_asset) and refunded_fee (as fee_amount); execute_order sets order_id,
\* fee_amount and excess_amount.
Attrs(action, order_id, bidder_addr, offer_asset, ask_asset, fee_amount, excess_amount) ==
  [action |-> action, order_id |-> order_id, bidder_addr |-> bidder_addr,
   offer_asset |-> offer_asset, ask_asset |-> ask_asset,
   fee_amount |-> fee_amount, excess_amount |-> excess_amount]

NoAttrs == Attrs("-", 0, NoAddr, NoAsset, NoAsset, 0, 0)

\* What a handler returns: an error, or the instructions and attributes, and
\* the storage it staged (the unchanged storage on an error).
Result(err, messages, storage, attrs) ==
  [err |-> err, messages |-> messages, storage |-> storage, attrs |-> attrs]

Fail(err, storage) == Result(err, <<>>, storage, NoAttrs)

\* submit_order resolving the pool before it checks the fee.
submit_order_pair_first(storage, info, offer_asset, ask_asset, fee_amount) ==
  LET pair_info == query_pair_info({offer_asset.info, ask_asset.info})
      pull_offer == IF IsNative(offer_asset.info) THEN <<>>
                    ELSE <<TransferFrom(offer_asset.info, info.sender,
                                        ContractAddr, offer_asset.amount)>>
      pull_fee == <<TransferFrom(config.fee_token, info.sender,
                                 ContractAddr, fee_amount)>>
      new_order == OrderInfo(0, info.sender, CHOOSE p \in pair_info : TRUE,
                             offer_asset, ask_asset, fee_amount)
      stored == store_new_order(storage, new_order)
  IN IF pair_info = {} THEN Fail(NoMarket, storage)
     ELSE IF fee_amount < config.min_fee_amount THEN Fail(InvalidFee, storage)
     ELSE IF ~assert_sent_native_token_balance(offer_asset, info)
          THEN Fail(PaymentMismatch, storage)
     ELSE Result(NoError, pull_offer \o pull_fee, stored.storage,
                 Attrs("submit_order", stored.order.order_id, info.sender,
                       offer_asset, ask_asset, 0, 0))

\* submit_order pulling the fee before the offer.
submit_order_fee_pull_first(storage, info, offer_asset, ask_asset, fee_amount) ==
  LET pair_info == query_pair_info({offer_asset.info, ask_asset.info})
      pull_offer == IF IsNative(offer_asset.info) THEN <<>>
                    ELSE <<TransferFrom(offer_asset.info, info.sender,
                                        ContractAddr, offer_asset.amount)>>
      pull_fee == <<TransferFrom(config.fee_token, info.sender,
                                 ContractAddr, fee_amount)>>
      new_order == OrderInfo(0, info.sender, CHOOSE p \in pair_info : TRUE,
                             offer_asset, ask_asset, fee_amount)
      stored == store_new_order(storage, new_order)
  IN IF fee_amount < config.min_fee_amount THEN Fail(InvalidFee, storage)
     ELSE IF pair_info = {} THEN Fail(NoMarket, storage)
     ELSE IF ~assert_sent_native_token_balance(offer_asset, info)
          THEN Fail(PaymentMismatch, storage)
     ELSE Result(NoError, pull_fee \o pull_offer, stored.storage,
                 Attrs("submit_order", stored.order.order_id, info.sender,
                       offer_asset, ask_asset, 0, 0))

submit_order(storage, info, offer_asset, ask_asset, fee_amount) ==
  LET pair_info == query_pair_info({offer_asset.info, ask_asset.info})
      pull_offer == IF IsNative(offer_asset.info) THEN <<>>
                    ELSE <<TransferFrom(offer_asset.info, info.sender,
                                        ContractAddr, offer_asset.amount)>>
      pull_fee == <<TransferFrom(config.fee_token, info.sender,
                                 ContractAddr, fee_amount)>>
      new_order == OrderInfo(0, info.sender, CHOOSE p \in pair_info : TRUE,
                             offer_asset, ask_asset, fee_amount)
      stored == store_new_order(storage, new_order)
  IN IF fee_amount < config.min_fee_amount THEN Fail(InvalidFee, storage)
     ELSE IF pair_info = {} THEN Fail(NoMarket, storage)
     ELSE IF ~assert_sent_native_token_balance(offer_asset, info)
          THEN Fail(PaymentMismatch, storage)
     ELSE Result(NoError, pull_offer \o pull_fee, stored.storage,
                 Attrs("submit_order", stored.order.order_id, info.sender,
                       offer_asset, ask_asset, 0, 0))

\* cancel_order without the owner check.
cancel_order_by_anyone(storage, info, order_id) ==
  IF order_id \notin DOMAIN storage.ORDERS THEN Fail(NotFound, storage)
  ELSE LET order == storage.ORDERS[order_id]
           refund_fee_asset == Asset(config.fee_token, order.fee_amount)
       IN Result(NoError,
                 <<into_msg(order.offer_asset, order.bidder_addr),
                   into_msg(refund_fee_asset, order.bidder_addr)>>,
                 remove_order(storage, order),
                 Attrs("cancel_order", order_id, NoAddr, order.offer_asset,
                       NoAsset, refund_fee_asset.amount, 0))

\* cancel_order refunding the configured minimum fee instead of the order's fee.
cancel_order_min_fee(storage, info, order_id) ==
  IF order_id \notin DOMAIN storage.ORDERS THEN Fail(NotFound, storage)
  ELSE LET order == storage.ORDERS[order_id]
           refund_fee_asset == Asset(config.fee_token, config.min_fee_amount)
       IN IF order.bidder_addr # info.sender THEN Fail(Unauthorized, storage)
          ELSE Result(NoError,
                      <<into_msg(order.offer_asset, order.bidder_addr),
                        into_msg(refund_fee_asset, order.bidder_addr)>>,
                      remove_order(storage, order),
                      Attrs("cancel_order", order_id, NoAddr, order.offer_asset,
                            NoAsset, refund_fee_asset.amount, 0))

cancel_order(storage, info, order_id) ==
  IF order_id \notin DOMAIN storage.ORDERS THEN Fail(NotFound, storage)
  ELSE LET order == storage.ORDERS[order_id]
           refund_fee_asset == Asset(config.fee_token, order.fee_amount)
       IN IF order.bidder_addr # info.sender THEN Fail(Unauthorized, storage)
          ELSE Result(NoError,
                      <<into_msg(order.offer_asset, order.bidder_addr),
                        into_msg(refund_fee_asset, order.bidder_addr)>>,
                      remove_order(storage, order),
                      Attrs("cancel_order", order_id, NoAddr, order.offer_asset,
                            NoAsset, refund_fee_asset.amount, 0))

\* The swap instruction: a cw20 Send with a Swap hook for a token offer, a
\* Swap call carrying the coins for a native one; neither names a recipient
\* or a spread limit.
SwapMsg(order) ==
  Msg("swap", order.offer_asset.info, order.offer_asset.amount,
      ContractAddr, order.pair_addr)

\* execute_order refusing a return equal to the ask amount.
execute_order_strict(storage, info, order_id, simul_res) ==
  IF order_id \notin DOMAIN storage.ORDERS THEN Fail(NotFound, storage)
  ELSE LET order == storage.ORDERS[order_id]
           excess_amount == simul_res.return_amount - order.ask_asset.amount
           excess_asset == Asset(order.ask_asset.info, excess_amount)
           fee_asset == Asset(config.fee_token, order.fee_amount)
       IN IF ~simul_res.ok THEN Fail(VenueUnavailable, storage)
          ELSE IF simul_res.return_amount <= order.ask_asset.amount
               THEN Fail(InsufficientReturn, storage)
          ELSE Result(NoError,
                      <<SwapMsg(order), into_msg(order.ask_asset, order.bidder_addr)>>
                        \o (IF excess_amount > 0
                            THEN <<into_msg(excess_asset, info.sender)>> ELSE <<>>)
                        \o <<into_msg(fee_asset, info.sender)>>,
                      remove_order(storage, order),
                      Attrs("execute_order", order.order_id, NoAddr, NoAsset, NoAsset,
                            fee_asset.amount, excess_amount))

\* execute_order paying the fee before the excess.
execute_order_fee_first(storage, info, order_id, simul_res) ==
  IF order_id \notin DOMAIN storage.ORDERS THEN Fail(NotFound, storage)
  ELSE LET order == storage.ORDERS[order_id]
           excess_amount == simul_res.return_amount - order.ask_asset.amount
           excess_asset == Asset(order.ask_asset.info, excess_amount)
           fee_asset == Asset(config.fee_token, order.fee_amount)
       IN IF ~simul_res.ok THEN Fail(VenueUnavailable, storage)
          ELSE IF simul_res.return_amount < order.ask_asset.amount
               THEN Fail(InsufficientReturn, storage)
          ELSE Result(NoError,
                      <<SwapMsg(order), into_msg(order.ask_asset, order.bidder_addr)>>
                        \o <<into_msg(fee_asset, info.sender)>>
                        \o (IF excess_amount > 0
                            THEN <<into_msg(excess_asset, info.sender)>> ELSE <<>>),
                      remove_order(storage, order),
                      Attrs("execute_order", order.order_id, NoAddr, NoAsset, NoAsset,
                            fee_asset.amount, excess_amount))

\* execute_order paying the owner the whole simulated return.
execute_order_owner_gets_all(storage, info, order_id, simul_res) ==
  IF order_id \notin DOMAIN storage.ORDERS THEN Fail(NotFound, storage)
  ELSE LET order == storage.ORDERS[order_id]
           excess_amount == simul_res.return_amount - order.ask_asset.amount
           excess_asset == Asset(order.ask_asset.info, excess_amount)
           fee_asset == Asset(config.fee_token, order.fee_amount)
       IN IF ~simul_res.ok THEN Fail(VenueUnavailable, storage)
          ELSE IF simul_res.return_amount < order.ask_asset.amount
               THEN Fail(InsufficientReturn, storage)
          ELSE Result(NoError,
                      <<SwapMsg(order),
                        into_msg(Asset(order.ask_asset.info, simul_res.return_amount),
                                 order.bidder_addr)>>
                        \o (IF excess_amount > 0
                            THEN <<into_msg(excess_asset, info.sender)>> ELSE <<>>)
                        \o <<into_msg(fee_asset, info.sender)>>,
                      remove_order(storage, order),
                      Attrs("execute_order", order.order_id, NoAddr, NoAsset, NoAsset,
                            fee_asset.amount, excess_amount))

\* execute_order open to the order's owner only.
execute_order_owner_only(storage, info, order_id, simul_res) ==
  IF order_id \notin DOMAIN storage.ORDERS THEN Fail(NotFound, storage)
  ELSE LET order == storage.ORDERS[order_id]
           excess_amount == simul_res.return_amount - order.ask_asset.amount
           excess_asset == Asset(order.ask_asset.info, excess_amount)
           fee_asset == Asset(config.fee_token, order.fee_amount)
       IN IF order.bidder_addr # info.sender THEN Fail(Unauthorized, storage)
          ELSE IF ~simul_res.ok THEN Fail(VenueUnavailable, storage)
          ELSE IF simul_res.return_amount < order.ask_asset.amount
               THEN Fail(InsufficientReturn, storage)
          ELSE Result(NoError,
                      <<SwapMsg(order), into_msg(order.ask_asset, order.bidder_addr)>>
                        \o (IF excess_amount > 0
                            THEN <<into_msg(excess_asset, info.sender)>> ELSE <<>>)
                        \o <<into_msg(fee_asset, info.sender)>>,
                      remove_order(storage, order),
                      Attrs("execute_order", order.order_id, NoAddr, NoAsset, NoAsset,
                            fee_asset.amount, excess_amount))

\* simul_res is the venue's answer to simulate(): [ok, return_amount].
execute_order(storage, info, order_id, simul_res) ==
  IF order_id \notin DOMAIN storage.ORDERS THEN Fail(NotFound, storage)
  ELSE LET order == storage.ORDERS[order_id]
           excess_amount == simul_res.return_amount - order.ask_asset.amount
           excess_asset == Asset(order.ask_asset.info, excess_amount)
           fee_asset == Asset(config.fee_token, order.fee_amount)
       IN IF ~simul_res.ok THEN Fail(VenueUnavailable, storage)
          ELSE IF simul_res.return_amount < order.ask_asset.amount
               THEN Fail(InsufficientReturn, storage)
          ELSE Result(NoError,
                      <<SwapMsg(order), into_msg(order.ask_asset, order.bidder_addr)>>
                        \o (IF excess_amount > 0
                            THEN <<into_msg(excess_asset, info.sender)>> ELSE <<>>)
                        \o <<into_msg(fee_asset, info.sender)>>,
                      remove_order(storage, order),
                      Attrs("execute_order", order.order_id, NoAddr, NoAsset, NoAsset,
                            fee_asset.amount, excess_amount))

\* ------------------------------------------------------------ query.rs
NoOrderRes == as_res(OrderInfo(0, NoAddr, NoAddr, NoAsset, NoAsset, 0))

query_order(storage, order_id) ==
  IF order_id \in DOMAIN storage.ORDERS
  THEN [err |-> NoError, order |-> as_res(storage.ORDERS[order_id])]
  ELSE [err |-> NotFound, order |-> NoOrderRes]

\* query_orders: the owner-scoped listing when bidder_addr is given, the
\* global one otherwise, each order as its response.
query_orders(storage, bidder_addr, start_after, limit, order_by) ==
  LET read == IF bidder_addr # None
              THEN read_orders_by_user(storage, CHOOSE u \in bidder_addr : TRUE,
                                       start_after, limit, order_by)
              ELSE read_orders(storage, start_after, limit, order_by)
  IN Orders(read.err, [i \in 1..Len(read.orders) |-> as_res(read.orders[i])])

\* ------------------------------------------------------------ contract.rs
\* instantiate: the configuration written at construction.
instantiate(msg) ==
  [fee_token |-> msg.fee_token,
   min_fee_amount |-> msg.min_fee_amount,
   terraswap_factory |-> msg.terraswap_factory]

\* ------------------------------------------------------------ the host
\* The other asset of the pool: what a swap of info at pair pays back.
ReturnInfo(pair, info) == CHOOSE k \in PairAssets[pair] : k # info

Credit(bal, info, amount) == [bal EXCEPT ![info] = @ + amount]

\* One instruction applied to the contract's balances. env.ok says whether
\* the payer's allowance and the venue let a pull or a swap through;
\* env.return_amount is what the venue's executed swap pays back.
ApplyMsg(bal, m, env) ==
  CASE m.type = "transfer_from" ->
         IF env.ok THEN [ok |-> TRUE, balance |-> Credit(bal, m.info, m.amount)]
                   ELSE [ok |-> FALSE, balance |-> bal]
    [] m.type = "swap" ->
         IF env.ok /\ bal[m.info] >= m.amount
         THEN [ok |-> TRUE,
               balance |-> Credit(Credit(bal, m.info, 0 - m.amount),
                                  ReturnInfo(m.to, m.info), env.return_amount)]
         ELSE [ok |-> FALSE, balance |-> bal]
    [] OTHER ->
         IF bal[m.info] >= m.amount
         THEN [ok |-> TRUE, balance |-> Credit(bal, m.info, 0 - m.amount)]
         ELSE [ok |-> FALSE, balance |-> bal]

\* The returned instructions run in order; the first failure fails them all.
RECURSIVE HostExec(_, _, _)
HostExec(bal, msgs, env) ==
  IF msgs = <<>> THEN [ok |-> TRUE, balance |-> bal]
  ELSE LET r == ApplyMsg(bal, Head(msgs), env)
       IN IF r.ok THEN HostExec(r.balance, Tail(msgs), env) ELSE r

\* The coins attached to a call are credited before the handler runs.
RECURSIVE CreditFunds(_, _)
CreditFunds(bal, funds) ==
  IF funds = {} THEN bal
  ELSE LET c == CHOOSE x \in funds : TRUE
       IN CreditFunds(Credit(bal, c.denom, c.amount), funds \ {c})

NoSimul == [ok |-> FALSE, return_amount |-> 0]
NoFunds == {}

\* msg.rs: ExecuteMsg and QueryMsg::Order, as one record shape.
SubmitOrderMsg(offer_asset, ask_asset, fee_amount) ==
  [order_id |-> 0, offer_asset |-> offer_asset, ask_asset |-> ask_asset,
   fee_amount |-> fee_amount]
OrderIdMsg(order_id) ==
  [order_id |-> order_id, offer_asset |-> NoAsset, ask_asset |-> NoAsset,
   fee_amount |-> 0]

\* The last call as its caller sees it: the request (op, sender, attached
\* coins, message, the venue's simulation answer) and the outcome (error, instructions,
\* attributes, whether the host committed it, a query's order).
Response(op, info, msg, simul_res, res, committed, order) ==
  [op |-> op, sender |-> info.sender, funds |-> info.funds, msg |-> msg,
   simul_res |-> simul_res,
   err |-> res.err, messages |-> res.messages, attrs |-> res.attrs,
   committed |-> committed, order |-> order]

\* What the caller sees when the host could not run a returned instruction.
InstructionFailed == "instruction failed"

\* A call of execute(): the attached funds are credited, the handler runs on
\* staged storage, and the host then runs the returned instructions. The
\* storage and the balances change only when all of it succeeds; when an
\* instruction fails the caller gets that error and no response.
Call(op, info, msg, simul_res, res, env) ==
  LET ex == HostExec(CreditFunds(balance, info.funds), res.messages, env)
      committed == res.err = NoError /\ ex.ok
      seen == IF res.err = NoError /\ ~ex.ok
              THEN Fail(InstructionFailed, res.storage) ELSE res
  IN /\ resp' = Response(op, info, msg, simul_res, seen, committed, NoOrderRes)
     /\ IF committed
        THEN /\ ORDERS' = res.storage.ORDERS
             /\ ORDERS_BY_USER' = res.storage.ORDERS_BY_USER
             /\ LAST_ORDER_ID' = res.storage.LAST_ORDER_ID
             /\ balance' = ex.balance
             /\ closed' = IF op = "submit_order" THEN closed
                          ELSE [closed EXCEPT ![res.attrs.order_id] = Append(@, op)]
        ELSE UNCHANGED <<ORDERS, ORDERS_BY_USER, LAST_ORDER_ID, balance, closed>>
     /\ UNCHANGED config

\* ------------------------------------------------------------ inputs
MinFees == {1}
Fees == {0, 1, 2}
OfferAssets == {Asset("uusd", 2), Asset("FEE", 1)}
AskAssets == {Asset("FEE", 2), Asset("uusd", 2), Asset("TOK", 1)}
Coin(denom, amount) == [denom |-> denom, amount |-> amount]
\* Coins are attached to native offers: none, the offered amount, or one less.
FundsFor(offer_asset) ==
  IF IsNative(offer_asset.info)
  THEN {NoFunds, {Coin(offer_asset.info, offer_asset.amount)},
        {Coin(offer_asset.info, offer_asset.amount - 1)}}
  ELSE {NoFunds}
\* A pull goes through or the payer's allowance or balance refuses it.
PullEnvs == [ok : BOOLEAN, return_amount : {0}]
\* A swap is refused, or pays back its simulated return plus a slip.
SwapEnvs == {[ok |-> FALSE, slip |-> 0]} \cup [ok : {TRUE}, slip : {-1, 0, 1}]
ReturnAmounts == 1..3
SimulResults == {NoSimul} \cup [ok : {TRUE}, return_amount : ReturnAmounts]
SimulFor(order_id) == IF order_id \in DOMAIN ORDERS THEN SimulResults ELSE {NoSimul}
\* The host runs instructions only for a handler that returned Ok.
EnvsFor(res, envs) == IF res.err = NoError THEN envs ELSE {CHOOSE e \in envs : ~e.ok}
Max(a, b) == IF a >= b THEN a ELSE b

Init ==
  /\ \E m \in MinFees :
       config = instantiate([fee_token |-> "FEE", min_fee_amount |-> m,
                             terraswap_factory |-> FactoryAddr])
  /\ LAST_ORDER_ID = 0
  /\ ORDERS = <<>>
  /\ ORDERS_BY_USER = {}
  /\ balance = [k \in Kinds |-> 0]
  /\ closed = [i \in OrderIds |-> <<>>]
  /\ resp = Response("instantiate", [sender |-> NoAddr, funds |-> NoFunds],
                     OrderIdMsg(0), NoSimul, Fail(NoError, CurrentStorage),
                     TRUE, NoOrderRes)

SubmitOrder ==
  /\ LAST_ORDER_ID < MaxOrders
  /\ \E sender \in Users, offer_asset \in OfferAssets, ask_asset \in AskAssets,
        fee_amount \in Fees :
       \E funds \in FundsFor(offer_asset) :
         LET info == [sender |-> sender, funds |-> funds]
             res == submit_order(CurrentStorage, info, offer_asset, ask_asset, fee_amount)
         IN \E env \in EnvsFor(res, PullEnvs) :
              Call("submit_order", info,
                   SubmitOrderMsg(offer_asset, ask_asset, fee_amount), NoSimul,
                   res, env)

CancelOrder ==
  \E sender \in Users, order_id \in OrderIds :
    LET info == [sender |-> sender, funds |-> NoFunds]
    IN Call("cancel_order", info, OrderIdMsg(order_id), NoSimul,
            cancel_order(CurrentStorage, info, order_id),
            [ok |-> TRUE, return_amount |-> 0])

\* The venue is asked for a simulation only once the order has been loaded.
\* Its executed swap may fail, or pay back more or less than it simulated.
ExecuteOrder ==
  \E sender \in Users, order_id \in OrderIds :
    \E simul_res \in SimulFor(order_id) :
      LET info == [sender |-> sender, funds |-> NoFunds]
          res == execute_order(CurrentStorage, info, order_id, simul_res)
      IN \E env \in EnvsFor(res, SwapEnvs) :
           Call("execute_order", info, OrderIdMsg(order_id), simul_res, res,
                [ok |-> env.ok,
                 return_amount |-> Max(0, simul_res.return_amount + env.slip)])

QueryOrder ==
  \E order_id \in OrderIds :
    LET q == query_order(CurrentStorage, order_id)
    IN /\ resp' = Response("query_order", [sender |-> NoAddr, funds |-> NoFunds],
                           OrderIdMsg(order_id), NoSimul,
                           Fail(q.err, CurrentStorage), FALSE, q.order)
       /\ UNCHANGED <<config, LAST_ORDER_ID, ORDERS, ORDERS_BY_USER, balance, closed>>

Next == SubmitOrder \/ CancelOrder \/ ExecuteOrder \/ QueryOrder

Spec == Init /\ [][Next]_vars

\* ------------------------------------------------------------ listings
\* The Orders query is a pure function of the storage and its arguments; it
\* is applied to storages the calls above build (submits up to a last id, then
\* cancels) that are large enough to fill a page.
MaxListed == 32
ListSizes == {0, 1, 2, 3, 11, 12, 31, MaxListed}
OwnerPatterns == {"one", "alternate", "last"}
CancelPatterns == {"none", "thirds", "first"}
StartAfters == {0, 1, 2, 3, 20, 256}
Limits == {0, 1, 2, 10, 11, 30, 31, 100}

\* Who submits the order that gets the given id.
OwnerOf(pattern, id, n) ==
  IF pattern = "one" THEN "alice"
  ELSE IF pattern = "alternate" THEN (IF id % 2 = 1 THEN "alice" ELSE "bob")
  ELSE (IF id = n THEN "bob" ELSE "alice")

\* Which ids their owners cancel afterwards.
Cancelled(pattern, n) ==
  IF pattern = "none" THEN {}
  ELSE IF pattern = "thirds" THEN {id \in 1..n : id % 3 = 0}
  ELSE {id \in 1..n : id = 1}

\* The storage after n submits (each offering 1 FEE for 2 uusd with fee 1)
\* and the cancels of the given ids: what store_new_order and remove_order
\* leave in the two maps and the counter.
Listed(owners, n, cancelled) ==
  LET open == (1..n) \ cancelled
  IN Storage([id \in open |-> OrderInfo(id, owners[id], "pair_uusd_fee",
                                        Asset("FEE", 1), Asset("uusd", 2), 1)],
             {<<owners[id], id>> : id \in open},
             n)

\* An Orders query and, once it has run, its answer.
OrdersCall(bidder_addr, start_after, limit, order_by, done, res) ==
  [op |-> "orders", bidder_addr |-> bidder_addr, start_after |-> start_after,
   limit |-> limit, order_by |-> order_by, done |-> done,
   err |-> res.err, orders |-> res.orders]

ListInit ==
  \E n \in ListSizes, op \in OwnerPatterns, cp \in CancelPatterns :
    LET storage == Listed([id \in 1..n |-> OwnerOf(op, id, n)], n,
                          Cancelled(cp, n))
    IN /\ config = instantiate([fee_token |-> "FEE", min_fee_amount |-> 1,
                                terraswap_factory |-> FactoryAddr])
       /\ LAST_ORDER_ID = storage.LAST_ORDER_ID
       /\ ORDERS = storage.ORDERS
       /\ ORDERS_BY_USER = storage.ORDERS_BY_USER
       /\ balance = [k \in Kinds |-> IF k = "FEE"
                                     THEN 2 * Cardinality(DOMAIN storage.ORDERS)
                                     ELSE 0]
       /\ closed = [id \in 1..n |-> IF id \in DOMAIN storage.ORDERS THEN <<>>
                                    ELSE <<"cancel_order">>]
       /\ \E bidder_addr \in {None} \cup {Some(u) : u \in Users},
             start_after \in {None} \cup {Some(a) : a \in StartAfters},
             limit \in {None} \cup {Some(l) : l \in Limits},
             order_by \in {None, Some(Asc), Some(Desc)} :
            resp = OrdersCall(bidder_addr, start_after, limit, order_by, FALSE,
                              Orders(NoError, <<>>))

\* contract.rs query(): QueryMsg::Orders answers the pending query.
QueryOrders ==
  /\ resp.op = "orders" /\ ~resp.done
  /\ resp' = OrdersCall(resp.bidder_addr, resp.start_after, resp.limit,
                        resp.order_by, TRUE,
                        query_orders(CurrentStorage, resp.bidder_addr,
                                     resp.start_after, resp.limit, resp.order_by))
  /\ UNCHANGED <<config, LAST_ORDER_ID, ORDERS, ORDERS_BY_USER, balance, closed>>

ListNext == QueryOrders

ListSpec == ListInit /\ [][ListNext]_vars

\* ------------------------------------------------------------ properties
StorageVars == <<ORDERS, ORDERS_BY_USER, LAST_ORDER_ID>>
StorageNext == Storage(ORDERS', ORDERS_BY_USER', LAST_ORDER_ID')
Committed(op) == resp.op = op /\ resp.committed
TransferType(info) == IF IsNative(info) THEN "bank_send" ELSE "transfer"

\* What the open orders have in escrow of one asset kind: their offers of
\* that kind and, for the fee token, their fees.
RECURSIVE EscrowOf(_, _)
EscrowOf(ids, kind) ==
  IF ids = {} THEN 0
  ELSE LET id == CHOOSE i \in ids : TRUE
           o == ORDERS[id]
       IN (IF o.offer_asset.info = kind THEN o.offer_asset.amount ELSE 0)
          + (IF config.fee_token = kind THEN o.fee_amount ELSE 0)
          + EscrowOf(ids \ {id}, kind)

\* C1: for every asset kind the contract holds at least what its open orders
\* have in escrow of that kind (offers, plus fees for the fee token).
C1_EscrowCovered ==
  \A kind \in Kinds : balance[kind] >= EscrowOf(DOMAIN ORDERS, kind)

\* C2: a cancel of an open order by anyone but its owner fails with
\* Unauthorized, returns no instruction and leaves the storage unchanged; a
\* cancel by the owner is not refused as unauthorized.
C2_CancelOnlyByOwner ==
  [][(resp'.op = "cancel_order" /\ resp'.msg.order_id \in DOMAIN ORDERS) =>
       IF resp'.sender = ORDERS[resp'.msg.order_id].bidder_addr
       THEN resp'.err # Unauthorized
       ELSE /\ resp'.err = Unauthorized
            /\ resp'.messages = <<>>
            /\ ~resp'.committed
            /\ UNCHANGED StorageVars]_vars

C2_Witness ==
  /\ resp.op = "cancel_order" /\ resp.err = Unauthorized
  /\ resp.msg.order_id \in DOMAIN ORDERS
  /\ resp.sender # ORDERS[resp.msg.order_id].bidder_addr

\* C3: an execute of an open order whose simulated return is below the ask
\* amount fails with InsufficientReturn, returns no instruction and leaves
\* the order in the table and the owner index; a simulated return equal to
\* the ask amount is not refused as insufficient.
C3_InsufficientReturn ==
  [][(/\ resp'.op = "execute_order"
      /\ resp'.msg.order_id \in DOMAIN ORDERS
      /\ resp'.simul_res.ok) =>
       LET order == ORDERS[resp'.msg.order_id]
       IN IF resp'.simul_res.return_amount < order.ask_asset.amount
          THEN /\ resp'.err = InsufficientReturn
               /\ resp'.messages = <<>>
               /\ ~resp'.committed
               /\ order.order_id \in DOMAIN ORDERS'
               /\ ORDERS'[order.order_id] = order
               /\ <<order.bidder_addr, order.order_id>> \in ORDERS_BY_USER'
               /\ UNCHANGED StorageVars
          ELSE resp'.err # InsufficientReturn]_vars

C3_Witness ==
  /\ resp.op = "execute_order" /\ resp.err = InsufficientReturn
  /\ resp.msg.order_id \in DOMAIN ORDERS
  /\ resp.simul_res.return_amount < ORDERS[resp.msg.order_id].ask_asset.amount

\* C4: a committed submit raises last_order_id by exactly one and stores the
\* order under the new value, an id no order held before; no other call
\* changes last_order_id, and every id in use is at most last_order_id.
C4_IdsNeverReused ==
  [][/\ \A id \in DOMAIN ORDERS : id <= LAST_ORDER_ID
     /\ \A id \in OrderIds : closed[id] # <<>> => id <= LAST_ORDER_ID
     /\ IF resp'.op = "submit_order" /\ resp'.committed
        THEN /\ LAST_ORDER_ID' = LAST_ORDER_ID + 1
             /\ resp'.attrs.order_id = LAST_ORDER_ID'
             /\ LAST_ORDER_ID' \notin DOMAIN ORDERS
             /\ closed[LAST_ORDER_ID'] = <<>>
             /\ LAST_ORDER_ID' \in DOMAIN ORDERS'
             /\ ORDERS'[LAST_ORDER_ID'].order_id = LAST_ORDER_ID'
        ELSE LAST_ORDER_ID' = LAST_ORDER_ID]_vars

C4_Witness ==
  /\ Committed("submit_order")
  /\ resp.attrs.order_id = 2
  /\ closed[1] # <<>>
  /\ DOMAIN ORDERS = {2}

\* C5: a committed execute returns the swap of the whole offer at the order's
\* pool, then the transfer to the owner, then the excess transfer to the
\* caller exactly when the excess is positive, then the fee transfer to the
\* caller: four instructions with an excess, three without.
C5_InstructionOrder ==
  [][(resp'.op = "execute_order" /\ resp'.committed) =>
       LET order == ORDERS[resp'.msg.order_id]
           m == resp'.messages
           excess == resp'.simul_res.return_amount - order.ask_asset.amount
           n == IF excess > 0 THEN 4 ELSE 3
       IN /\ Len(m) = n
          /\ m[1] = Msg("swap", order.offer_asset.info, order.offer_asset.amount,
                        ContractAddr, order.pair_addr)
          /\ m[2].type = TransferType(order.ask_asset.info)
          /\ m[2].info = order.ask_asset.info
          /\ m[2].to = order.bidder_addr
          /\ excess > 0 => /\ m[3].type = TransferType(order.ask_asset.info)
                           /\ m[3].info = order.ask_asset.info
                           /\ m[3].to = resp'.sender
          /\ m[n].type = "transfer"
          /\ m[n].info = config.fee_token
          /\ m[n].to = resp'.sender]_vars

C5_Witness ==
  /\ Committed("execute_order")
  /\ resp.attrs.excess_amount > 0
  /\ Len(resp.messages) = 4

\* C6: in a committed execute the owner is paid exactly the ask amount, the
\* caller is paid the simulated return less the ask amount in the ask asset
\* and the order's fee in the fee token; owner payout plus excess is the
\* simulated return.
C6_Payouts ==
  [][(resp'.op = "execute_order" /\ resp'.committed) =>
       LET order == ORDERS[resp'.msg.order_id]
           m == resp'.messages
           sim == resp'.simul_res.return_amount
           excess == sim - order.ask_asset.amount
       IN /\ m[2].amount = order.ask_asset.amount
          /\ m[2].info = order.ask_asset.info
          /\ m[2].to = order.bidder_addr
          /\ resp'.attrs.excess_amount = excess
          /\ excess > 0 => /\ m[3].amount = excess
                           /\ m[3].info = order.ask_asset.info
                           /\ m[3].to = resp'.sender
          /\ m[Len(m)].amount = order.fee_amount
          /\ m[Len(m)].info = config.fee_token
          /\ m[Len(m)].to = resp'.sender
          /\ resp'.attrs.fee_amount = order.fee_amount
          /\ m[2].amount + resp'.attrs.excess_amount = sim]_vars

C6_Witness ==
  /\ Committed("execute_order")
  /\ resp.attrs.excess_amount > 0
  /\ resp.attrs.fee_amount > config.min_fee_amount
  /\ resp.sender # resp.messages[2].to

\* C7: a committed cancel returns exactly two transfers to the owner, the
\* whole offer asset and the order's fee in the fee token, and removes the
\* order; a query of a removed id fails with NotFound.
C7_CancelRefunds ==
  [][/\ (resp'.op = "cancel_order" /\ resp'.committed) =>
          LET order == ORDERS[resp'.msg.order_id]
          IN /\ resp'.messages =
                  <<Msg(TransferType(order.offer_asset.info), order.offer_asset.info,
                        order.offer_asset.amount, ContractAddr, order.bidder_addr),
                    Msg("transfer", config.fee_token, order.fee_amount,
                        ContractAddr, order.bidder_addr)>>
             /\ order.order_id \notin DOMAIN ORDERS'
             /\ query_order(StorageNext, order.order_id).err = NotFound
     /\ (resp'.op = "query_order" /\ closed[resp'.msg.order_id] # <<>>) =>
          resp'.err = NotFound]_vars

C7_Witness ==
  /\ resp.op = "query_order" /\ resp.err = NotFound
  /\ closed[resp.msg.order_id] = <<"cancel_order">>

\* C8: a removed order is never open again, a cancel or execute of a removed
\* id fails with NotFound and returns nothing, and no id is closed (refunded
\* or settled) more than once.
C8_OneTerminalTransition ==
  [][/\ \A id \in OrderIds :
          (id <= LAST_ORDER_ID /\ id \notin DOMAIN ORDERS) => id \notin DOMAIN ORDERS'
     /\ (resp'.op \in {"cancel_order", "execute_order"}
         /\ resp'.msg.order_id \notin DOMAIN ORDERS) =>
          /\ resp'.err = NotFound
          /\ resp'.messages = <<>>
          /\ ~resp'.committed
          /\ UNCHANGED <<StorageVars, balance, closed>>
     /\ \A id \in OrderIds :
          /\ Len(closed'[id]) <= 1
          /\ closed'[id] # <<>> => id \notin DOMAIN ORDERS']_vars

C8_Witness ==
  /\ resp.op \in {"cancel_order", "execute_order"} /\ resp.err = NotFound
  /\ closed[resp.msg.order_id] # <<>>

\* C9: the owner index holds (owner, id) exactly for the orders of the order
\* table, each stored under its own id.
C9_IndexMatchesOrders ==
  /\ ORDERS_BY_USER = {<<ORDERS[id].bidder_addr, id>> : id \in DOMAIN ORDERS}
  /\ \A id \in DOMAIN ORDERS : ORDERS[id].order_id = id

C9_Witness ==
  /\ Cardinality(ORDERS_BY_USER) = 1
  /\ \E id \in OrderIds : closed[id] # <<>>

\* C10: after a committed submit, the query of the returned id answers with
\* the submitted offer, ask and fee, the caller as owner, the pool the
\* directory resolves for the pair, and the id queried.
C10_SubmitQueryRoundTrip ==
  Committed("submit_order") =>
    LET q == query_order(CurrentStorage, resp.attrs.order_id)
    IN /\ q.err = NoError
       /\ q.order.order_id = resp.attrs.order_id
       /\ q.order.offer_asset = resp.msg.offer_asset
       /\ q.order.ask_asset = resp.msg.ask_asset
       /\ q.order.fee_amount = resp.msg.fee_amount
       /\ q.order.bidder_addr = resp.sender
       /\ {q.order.pair_addr} =
            query_pair_info({resp.msg.offer_asset.info, resp.msg.ask_asset.info})

C10_Witness ==
  /\ Committed("submit_order")
  /\ resp.msg.fee_amount > config.min_fee_amount
  /\ ~IsNative(resp.msg.offer_asset.info)

\* C14: a submit fails with InvalidFee exactly when its fee is below the
\* configured minimum (a fee equal to the minimum is not refused for it),
\* whatever the pair and the attached coins are; a submit that fails with
\* InvalidFee, NoMarket or PaymentMismatch returns no instruction, stores no
\* order and no index entry, and leaves last_order_id and the balances alone.
C14_InvalidFeeFirst ==
  [][resp'.op = "submit_order" =>
       /\ resp'.err = InvalidFee <=> resp'.msg.fee_amount < config.min_fee_amount
       /\ resp'.err \in {InvalidFee, NoMarket, PaymentMismatch} =>
            /\ resp'.messages = <<>>
            /\ ~resp'.committed
            /\ UNCHANGED <<StorageVars, balance, closed>>]_vars

C14_Witness ==
  /\ resp.op = "submit_order" /\ resp.err = InvalidFee
  /\ query_pair_info({resp.msg.offer_asset.info, resp.msg.ask_asset.info}) = {}
  /\ ~assert_sent_native_token_balance(resp.msg.offer_asset,
                                       [sender |-> resp.sender, funds |-> resp.funds])

\* C15: an execute of an open order whose simulation succeeds with a return
\* of at least the ask amount is accepted by the handler for every caller,
\* owner or not (the call then fails only if the host cannot run a returned
\* instruction); when it commits, the ask-amount transfer goes to the owner
\* and every later transfer (excess, fee) to the caller. A cancel of an open
\* order by anyone but its owner is refused.
C15_AnyoneExecutes ==
  [][/\ (/\ resp'.op = "execute_order"
         /\ resp'.msg.order_id \in DOMAIN ORDERS
         /\ resp'.simul_res.ok
         /\ resp'.simul_res.return_amount >=
              ORDERS[resp'.msg.order_id].ask_asset.amount) =>
          LET order == ORDERS[resp'.msg.order_id]
              m == resp'.messages
          IN /\ \A caller \in Users :
                  execute_order(CurrentStorage,
                                [sender |-> caller, funds |-> NoFunds],
                                order.order_id, resp'.simul_res).err = NoError
             /\ resp'.err \in {NoError, InstructionFailed}
             /\ resp'.committed =>
                  /\ m[2].to = order.bidder_addr
                  /\ m[2].amount = order.ask_asset.amount
                  /\ \A i \in 3..Len(m) : m[i].to = resp'.sender
                  /\ order.order_id \notin DOMAIN ORDERS'
     /\ (/\ resp'.op = "cancel_order"
         /\ resp'.msg.order_id \in DOMAIN ORDERS
         /\ resp'.sender # ORDERS[resp'.msg.order_id].bidder_addr) =>
          /\ resp'.err = Unauthorized
          /\ ~resp'.committed]_vars

C15_Witness ==
  /\ Committed("execute_order")
  /\ resp.sender # resp.messages[2].to
  /\ Len(resp.messages) = 4
  /\ resp.messages[3].to = resp.sender
  /\ closed[resp.msg.order_id] = <<"execute_order">>

\* C16: an order that stays in the table keeps every field it was stored
\* with; a committed cancel or execute of order X removes X from the order
\* table and (owner, X) from the owner index and nothing else; no other call
\* removes an order or an index entry.
C16_OrdersImmutable ==
  [][/\ \A id \in DOMAIN ORDERS \cap DOMAIN ORDERS' : ORDERS'[id] = ORDERS[id]
     /\ IF resp'.op \in {"cancel_order", "execute_order"} /\ resp'.committed
        THEN LET x == resp'.msg.order_id
             IN /\ x \in DOMAIN ORDERS
                /\ DOMAIN ORDERS' = DOMAIN ORDERS \ {x}
                /\ ORDERS_BY_USER' =
                     ORDERS_BY_USER \ {<<ORDERS[x].bidder_addr, x>>}
        ELSE /\ DOMAIN ORDERS \subseteq DOMAIN ORDERS'
             /\ ORDERS_BY_USER \subseteq ORDERS_BY_USER']_vars

C16_Witness ==
  /\ resp.op \in {"cancel_order", "execute_order"} /\ resp.committed
  /\ \E id \in DOMAIN ORDERS :
       /\ id # resp.msg.order_id
       /\ ORDERS[id].bidder_addr = resp.sender
       /\ <<resp.sender, id>> \in ORDERS_BY_USER

\* C17: a committed submit with a token offer returns exactly two pulls, in
\* this order: the offer amount of the offer token from the caller to the
\* contract, then fee_amount of the fee token from the caller to the
\* contract; with a native offer it returns the fee pull alone, and it
\* commits only when exactly the offer amount of that denomination was
\* attached: any other attachment is refused with PaymentMismatch once the
\* fee and the pool have been accepted.
C17_SubmitPulls ==
  [][resp'.op = "submit_order" =>
       LET offer == resp'.msg.offer_asset
           pull_offer == Msg("transfer_from", offer.info, offer.amount,
                             resp'.sender, ContractAddr)
           pull_fee == Msg("transfer_from", config.fee_token,
                           resp'.msg.fee_amount, resp'.sender, ContractAddr)
           exact == {c \in resp'.funds : c.denom = offer.info}
                      = {Coin(offer.info, offer.amount)}
       IN /\ resp'.committed =>
               /\ resp'.err = NoError
               /\ resp'.messages = IF IsNative(offer.info) THEN <<pull_fee>>
                                   ELSE <<pull_offer, pull_fee>>
               /\ IsNative(offer.info) => exact
          /\ (IsNative(offer.info) /\ ~exact) =>
               /\ resp'.err \in {InvalidFee, NoMarket, PaymentMismatch}
               /\ (/\ resp'.msg.fee_amount >= config.min_fee_amount
                   /\ query_pair_info({offer.info, resp'.msg.ask_asset.info}) # {})
                    => resp'.err = PaymentMismatch]_vars

C17_Witness ==
  /\ Committed("submit_order")
  /\ IsNative(resp.msg.offer_asset.info)
  /\ Len(resp.messages) = 1
  /\ resp.funds = {Coin(resp.msg.offer_asset.info, resp.msg.offer_asset.amount)}
  /\ \E id \in DOMAIN ORDERS : ~IsNative(ORDERS[id].offer_asset.info)

\* C18: in every reachable state, for every open order, a cancel by its
\* owner is accepted by the handler and the host can run its two refunds, so
\* the order can be closed and its escrow returned whatever the venue does;
\* cancel_order takes no answer from the venue.
C18_OwnerCanAlwaysCancel ==
  \A id \in DOMAIN ORDERS :
    LET info == [sender |-> ORDERS[id].bidder_addr, funds |-> NoFunds]
        res == cancel_order(CurrentStorage, info, id)
    IN /\ res.err = NoError
       /\ HostExec(balance, res.messages, [ok |-> FALSE, return_amount |-> 0]).ok

\* The ids of the orders a finished Orders query returned, in its order, the
\* open orders its owner filter admits, and those past its cursor going
\* upwards (asc) or downwards.
ListedIds == [i \in 1..Len(resp.orders) |-> resp.orders[i].order_id]
Matching ==
  {id \in DOMAIN ORDERS :
     resp.bidder_addr = None \/ ORDERS[id].bidder_addr \in resp.bidder_addr}
PastCursor(asc) ==
  {id \in Matching : \A N \in resp.start_after : IF asc THEN id > N ELSE id < N}

C12_PageSize ==
  (resp.op = "orders" /\ resp.done) =>
    LET cap == IF resp.limit = None THEN 10
               ELSE LET l == CHOOSE x \in resp.limit : TRUE
                    IN IF l < 30 THEN l ELSE 30
        available == Cardinality(PastCursor(resp.order_by = Some(Asc)))
    IN /\ resp.err = NoError
       /\ Len(resp.orders) <= cap
       /\ Len(resp.orders) = IF available >= cap THEN cap ELSE available

C12_Witness ==
  /\ resp.op = "orders" /\ resp.done
  /\ resp.limit = Some(31)
  /\ resp.bidder_addr = Some("alice")
  /\ resp.start_after = Some(0)
  /\ resp.order_by = Some(Asc)
  /\ Len(resp.orders) = 30
  /\ Cardinality(Matching) > 30

\* The global listing for the arguments of the query in resp.
GlobalOrders ==
  query_orders(CurrentStorage, None, resp.start_after, resp.limit, resp.order_by).orders
OrderSet(orders) == {orders[i] : i \in 1..Len(orders)}

\* C13 as stated: an owner-scoped listing returns a strict subset of what
\* the global listing returns for the same start_after, limit and order_by,
\* and only orders of that owner.
C13_StrictSubsetOfGlobal ==
  (resp.op = "orders" /\ resp.done /\ resp.bidder_addr # None) =>
    /\ OrderSet(resp.orders) \subseteq OrderSet(GlobalOrders)
    /\ OrderSet(resp.orders) # OrderSet(GlobalOrders)
    /\ \A i \in 1..Len(resp.orders) : resp.orders[i].bidder_addr \in resp.bidder_addr

\* C13 amended: an owner-scoped listing returns only open orders of that
\* owner that lie past the cursor, each as the order table holds it; they are
\* a subset (possibly all) of what the global listing returns for the same
\* start_after, limit and order_by whenever the global listing is not cut
\* short by its page size, and of the open orders in any case.
C13_OwnerListing ==
  (resp.op = "orders" /\ resp.done /\ resp.bidder_addr # None) =>
    LET cap == Min(unwrap_or(resp.limit, 10), 30)
    IN /\ resp.err = NoError
       /\ \A i \in 1..Len(resp.orders) :
            /\ resp.orders[i].bidder_addr \in resp.bidder_addr
            /\ resp.orders[i].order_id \in PastCursor(resp.order_by = Some(Asc))
            /\ resp.orders[i] = as_res(ORDERS[resp.orders[i].order_id])
       /\ Len(GlobalOrders) < cap =>
            OrderSet(resp.orders) \subseteq OrderSet(GlobalOrders)

C13_Witness ==
  /\ resp.op = "orders" /\ resp.done
  /\ resp.bidder_addr = Some("bob")
  /\ resp.limit = Some(2)
  /\ resp.order_by = Some(Asc)
  /\ Len(resp.orders) = 1
  /\ Len(GlobalOrders) = 2
  /\ OrderSet(resp.orders) \cap OrderSet(GlobalOrders) = {}

====
